---- MODULE Spec2Model ----
(***************************************************************************)
(* Model of the AI-response orchestration layer of Ecosol                  *)
(* (src/services/geminiService.ts): the error classifier safeGenAIRequest, *)
(* the JSON repair engine tryRepairJson, grounding extraction and the six  *)
(* exported generation operations; and of the research search of the App   *)
(* component (src/unnamed/part_001, performGlobalSearch).                  *)
(*                                                                         *)
(* JavaScript strings are sequences of one-character strings, so that      *)
(* String.includes, String.trim, String.endsWith, the delimiter counts of  *)
(* tryRepairJson and JSON.parse are computed character by character.       *)
(***************************************************************************)
EXTENDS Integers, Sequences, FiniteSets, TLC

(***************************************************************************)
(* String primitives                                                       *)
(***************************************************************************)

\* String.prototype.endsWith for a one-character argument
EndsWith(s, c) == Len(s) > 0 /\ s[Len(s)] = c

\* sub occurs in s starting at index i (1-based)
OccursAt(s, sub, i) ==
    /\ i + Len(sub) - 1 <= Len(s)
    /\ \A k \in 1..Len(sub) : s[i + k - 1] = sub[k]

\* String.prototype.includes
Includes(s, sub) == \E i \in 1..(Len(s) - Len(sub) + 1) : OccursAt(s, sub, i)

IsSpace(c) == c = " "

RECURSIVE TrimStart(_)
TrimStart(s) == IF Len(s) > 0 /\ IsSpace(s[1]) THEN TrimStart(Tail(s)) ELSE s

RECURSIVE TrimEnd(_)
TrimEnd(s) ==
    IF Len(s) > 0 /\ IsSpace(s[Len(s)])
    THEN TrimEnd(SubSeq(s, 1, Len(s) - 1))
    ELSE s

\* String.prototype.trim
Trim(s) == TrimEnd(TrimStart(s))

\* (s.match(/c/g) || []).length
CountOf(s, c) == Cardinality({i \in 1..Len(s) : s[i] = c})

\* decimal digits of a natural number, as a string
RECURSIVE Decimal(_)
Decimal(n) ==
    LET d == <<"0", "1", "2", "3", "4", "5", "6", "7", "8", "9">>
    IN  IF n < 10 THEN <<d[n + 1]>> ELSE Append(Decimal(n \div 10), d[(n % 10) + 1])

(***************************************************************************)
(* JSON repair engine                                                      *)
(***************************************************************************)

\* tryRepairJson closing every unmatched bracket and brace, not one of each
tryRepairJson_CloseAll(jsonStr) ==
    LET cleaned0 == Trim(jsonStr)
        cleaned1 == IF EndsWith(cleaned0, "\"") THEN cleaned0
                    ELSE Append(cleaned0, "\"")
        cleaned2 == cleaned1 \o [i \in 1..(CountOf(cleaned1, "[") - CountOf(cleaned1, "]"))
                                    |-> "]"]
        cleaned3 == cleaned2 \o [i \in 1..(CountOf(cleaned2, "{") - CountOf(cleaned2, "}"))
                                    |-> "}"]
    IN  IF ~EndsWith(cleaned0, "}") THEN cleaned3 ELSE cleaned0

\* tryRepairJson never closing the string it was cut in
tryRepairJson_NoQuote(jsonStr) ==
    LET cleaned0 == Trim(jsonStr)
        cleaned2 == IF CountOf(cleaned0, "[") > CountOf(cleaned0, "]")
                    THEN Append(cleaned0, "]") ELSE cleaned0
        cleaned3 == IF CountOf(cleaned2, "{") > CountOf(cleaned2, "}")
                    THEN Append(cleaned2, "}") ELSE cleaned2
    IN  IF ~EndsWith(cleaned0, "}") THEN cleaned3 ELSE cleaned0

\* tryRepairJson closing the object before the array
tryRepairJson_BraceFirst(jsonStr) ==
    LET cleaned0 == Trim(jsonStr)
        cleaned1 == IF EndsWith(cleaned0, "\"") THEN cleaned0
                    ELSE Append(cleaned0, "\"")
        cleaned2 == IF CountOf(cleaned1, "{") > CountOf(cleaned1, "}")
                    THEN Append(cleaned1, "}") ELSE cleaned1
        cleaned3 == IF CountOf(cleaned2, "[") > CountOf(cleaned2, "]")
                    THEN Append(cleaned2, "]") ELSE cleaned2
    IN  IF ~EndsWith(cleaned0, "}") THEN cleaned3 ELSE cleaned0

\* tryRepairJson leaving alone a text that ends with "]" instead of "}"
tryRepairJson_EndsWithBracket(jsonStr) ==
    LET cleaned0 == Trim(jsonStr)
        cleaned1 == IF EndsWith(cleaned0, "\"") THEN cleaned0
                    ELSE Append(cleaned0, "\"")
        cleaned2 == IF CountOf(cleaned1, "[") > CountOf(cleaned1, "]")
                    THEN Append(cleaned1, "]") ELSE cleaned1
        cleaned3 == IF CountOf(cleaned2, "{") > CountOf(cleaned2, "}")
                    THEN Append(cleaned2, "}") ELSE cleaned2
    IN  IF ~EndsWith(cleaned0, "]") THEN cleaned3 ELSE cleaned0

\* tryRepairJson without the test for a text that already ends with "}"
tryRepairJson_NoEndTest(jsonStr) ==
    LET cleaned0 == Trim(jsonStr)
        cleaned1 == IF EndsWith(cleaned0, "\"") THEN cleaned0
                    ELSE Append(cleaned0, "\"")
        cleaned2 == IF CountOf(cleaned1, "[") > CountOf(cleaned1, "]")
                    THEN Append(cleaned1, "]") ELSE cleaned1
    IN  IF CountOf(cleaned2, "{") > CountOf(cleaned2, "}")
        THEN Append(cleaned2, "}") ELSE cleaned2

tryRepairJson(jsonStr) ==
    LET cleaned0 == Trim(jsonStr)
        cleaned1 == IF EndsWith(cleaned0, "\"") THEN cleaned0
                    ELSE Append(cleaned0, "\"")
        cleaned2 == IF CountOf(cleaned1, "[") > CountOf(cleaned1, "]")
                    THEN Append(cleaned1, "]") ELSE cleaned1
        cleaned3 == IF CountOf(cleaned2, "{") > CountOf(cleaned2, "}")
                    THEN Append(cleaned2, "}") ELSE cleaned2
    IN  IF ~EndsWith(cleaned0, "}") THEN cleaned3 ELSE cleaned0

(***************************************************************************)
(* JSON.parse: a recursive-descent parser over the character sequence.     *)
(* A parsed value is a record [t, s, keys, items]: t is the JSON type, s   *)
(* the characters of a string, number or literal, items the elements of an *)
(* array or the member values of an object, keys the member names.         *)
(* Of the escape sequences \" \\ \/ \n \t \r \f are modelled; \b and \uXXXX *)
(* are not: no input text contains them.                                   *)
(* A parse yields [ok, pos, val]; on failure pos is the 1-based index of   *)
(* the offending character (Len + 1 at end of input).                      *)
(***************************************************************************)

JsonValue(type, chars, ks, vs) == [t |-> type, s |-> chars, keys |-> ks, items |-> vs]

JsonUndefined == JsonValue("undefined", <<>>, <<>>, <<>>)

ParseOk(p, v) == [ok |-> TRUE, pos |-> p, val |-> v]

ParseFail(p) == [ok |-> FALSE, pos |-> p, val |-> JsonUndefined]

IsDigit(c) == c \in {"0", "1", "2", "3", "4", "5", "6", "7", "8", "9"}

RECURSIVE SkipWs(_, _)
SkipWs(s, i) == IF i <= Len(s) /\ IsSpace(s[i]) THEN SkipWs(s, i + 1) ELSE i

RECURSIVE ScanDigits(_, _)
ScanDigits(s, i) == IF i <= Len(s) /\ IsDigit(s[i]) THEN ScanDigits(s, i + 1) ELSE i

\* the characters that may follow a backslash inside a string
EscapeChars == {"\"", "\\", "/", "n", "t", "r", "f"}

\* index of the closing quote of the string whose first character is at i;
\* 0 when the string is unterminated, -k when the character at k is not one
\* that may follow a backslash
RECURSIVE ScanString(_, _)
ScanString(s, i) ==
    IF i > Len(s) THEN 0
    ELSE IF s[i] = "\"" THEN i
    ELSE IF s[i] # "\\" THEN ScanString(s, i + 1)
    ELSE IF i + 1 > Len(s) THEN 0
    ELSE IF s[i + 1] \in EscapeChars THEN ScanString(s, i + 2)
    ELSE 0 - (i + 1)

\* the character an escape sequence stands for
Unescaped(c) ==
    CASE c = "n" -> "\n" [] c = "t" -> "\t" [] c = "r" -> "\r" [] c = "f" -> "\f"
      [] OTHER -> c

\* the characters of a string token with its escape sequences replaced
RECURSIVE Unescape(_)
Unescape(cs) ==
    IF cs = <<>> THEN <<>>
    ELSE IF Head(cs) = "\\"
    THEN <<Unescaped(cs[2])>> \o Unescape(SubSeq(cs, 3, Len(cs)))
    ELSE <<Head(cs)>> \o Unescape(Tail(cs))

\* the string opened at i and closed at q
StringToken(s, i, q) ==
    IF q = 0 THEN ParseFail(Len(s) + 1)
    ELSE IF q < 0 THEN ParseFail(0 - q)
    ELSE ParseOk(q + 1, JsonValue("string", Unescape(SubSeq(s, i + 1, q - 1)), <<>>, <<>>))

ParseString(s, i) == StringToken(s, i, ScanString(s, i + 1))

\* the number from i up to e (exclusive)
NumberToken(s, i, e) == ParseOk(e, JsonValue("number", SubSeq(s, i, e - 1), <<>>, <<>>))

\* number = 0 | [1-9][0-9]* ; sign, fraction and exponent are not modelled:
\* no input text contains "-", "." or a digit followed by a letter
ParseNumber(s, i) == NumberToken(s, i, IF s[i] = "0" THEN i + 1 ELSE ScanDigits(s, i))

ParseLiteral(s, i) ==
    LET lits == {<<"t", "r", "u", "e">>, <<"f", "a", "l", "s", "e">>, <<"n", "u", "l", "l">>}
        hit == {l \in lits : OccursAt(s, l, i)}
    IN  IF hit = {} THEN ParseFail(i)
        ELSE LET l == CHOOSE x \in hit : TRUE
             IN  ParseOk(i + Len(l), JsonValue("literal", l, <<>>, <<>>))

\* an object keeps one entry per member name: a repeated name overwrites the
\* value of the earlier entry
PutMember(obj, k, v) ==
    IF \E n \in 1..Len(obj.keys) : obj.keys[n] = k
    THEN LET n == CHOOSE m \in 1..Len(obj.keys) : obj.keys[m] = k
         IN  [obj EXCEPT !.items[n] = v]
    ELSE [obj EXCEPT !.keys = Append(@, k), !.items = Append(@, v)]

RECURSIVE ParseValue(_, _)
RECURSIVE ParseElements(_, _, _)
RECURSIVE ParseMembers(_, _, _)

\* after an element of arr: k is the next non-blank index
ElementNext(s, k, arr) ==
    IF k > Len(s) THEN ParseFail(k)
    ELSE IF s[k] = "," THEN ParseElements(s, k + 1, arr)
    ELSE IF s[k] = "]" THEN ParseOk(k + 1, arr)
    ELSE ParseFail(k)

\* r is the parse of the next element of arr
ElementParsed(s, r, arr) ==
    IF ~r.ok THEN r
    ELSE ElementNext(s, SkipWs(s, r.pos), [arr EXCEPT !.items = Append(@, r.val)])

ParseElements(s, j, arr) == ElementParsed(s, ParseValue(s, j), arr)

\* j is the first non-blank index after "["
ArrayBody(s, j) ==
    IF j > Len(s) THEN ParseFail(j)
    ELSE IF s[j] = "]" THEN ParseOk(j + 1, JsonValue("array", <<>>, <<>>, <<>>))
    ELSE ParseElements(s, j, JsonValue("array", <<>>, <<>>, <<>>))

ParseArray(s, i) == ArrayBody(s, SkipWs(s, i + 1))

\* after a member of obj: k is the next non-blank index
MemberNext(s, k, obj) ==
    IF k > Len(s) THEN ParseFail(k)
    ELSE IF s[k] = "," THEN ParseMembers(s, k + 1, obj)
    ELSE IF s[k] = "}" THEN ParseOk(k + 1, obj)
    ELSE ParseFail(k)

\* r is the parse of the value of member key
MemberParsed(s, key, r, obj) ==
    IF ~r.ok THEN r
    ELSE MemberNext(s, SkipWs(s, r.pos), PutMember(obj, key.val.s, r.val))

\* c is the first non-blank index after the member name
MemberValue(s, key, c, obj) ==
    IF c > Len(s) \/ s[c] # ":" THEN ParseFail(c)
    ELSE MemberParsed(s, key, ParseValue(s, c + 1), obj)

\* key is the parse of the member name
MemberColon(s, key, obj) ==
    IF ~key.ok THEN key ELSE MemberValue(s, key, SkipWs(s, key.pos), obj)

\* j is the first non-blank index of the member
MemberKey(s, j, obj) ==
    IF j <= Len(s) /\ s[j] = "\"" THEN MemberColon(s, ParseString(s, j), obj)
    ELSE ParseFail(j)

ParseMembers(s, j0, obj) == MemberKey(s, SkipWs(s, j0), obj)

\* j is the first non-blank index after "{"
ObjectBody(s, j) ==
    IF j > Len(s) THEN ParseFail(j)
    ELSE IF s[j] = "}" THEN ParseOk(j + 1, JsonValue("object", <<>>, <<>>, <<>>))
    ELSE ParseMembers(s, j, JsonValue("object", <<>>, <<>>, <<>>))

ParseObject(s, i) == ObjectBody(s, SkipWs(s, i + 1))

\* the value whose first character is at i
ValueAt(s, i) ==
    IF i > Len(s) THEN ParseFail(i)
    ELSE IF s[i] = "{" THEN ParseObject(s, i)
    ELSE IF s[i] = "[" THEN ParseArray(s, i)
    ELSE IF s[i] = "\"" THEN ParseString(s, i)
    ELSE IF IsDigit(s[i]) THEN ParseNumber(s, i)
    ELSE ParseLiteral(s, i)

ParseValue(s, i0) == ValueAt(s, SkipWs(s, i0))

\* k is the first non-blank index after the value
ParseEnd(s, r, k) == IF k <= Len(s) THEN ParseFail(k) ELSE r

ParseTop(s, r) == IF ~r.ok THEN r ELSE ParseEnd(s, r, SkipWs(s, r.pos))

\* JSON.parse(text): a value followed by nothing but whitespace
JSONparse(s) == ParseTop(s, ParseValue(s, 1))

(***************************************************************************)
(* Thrown values.  origin names the place that created the value, so that  *)
(* a rethrown value is told apart from a replacement with the same text.   *)
(* msgType says what error.message holds: "absent", "string" or "number"   *)
(* (a number's decimal digits are kept in message).                        *)
(***************************************************************************)

MkError(origin, kind, msgType, message) ==
    [origin |-> origin, kind |-> kind, msgType |-> msgType, message |-> message]

NoError == MkError("none", "none", "absent", <<>>)

QuotaMarker429 == <<"4", "2", "9">>

QuotaMarkerExhausted ==
    <<"R", "E", "S", "O", "U", "R", "C", "E", "_", "E", "X", "H", "A", "U", "S", "T", "E", "D">>

API_QUOTA_EXCEEDED ==
    <<"A", "P", "I", "_", "Q", "U", "O", "T", "A", "_", "E", "X", "C", "E", "E", "D", "E", "D">>

\* new Error("API_QUOTA_EXCEEDED")
QuotaExceeded == MkError("safeGenAIRequest", "Error", "string", API_QUOTA_EXCEEDED)

\* the TypeError the engine raises for errorMsg.includes(...) when errorMsg
\* is not a string
IncludesTypeError ==
    MkError("safeGenAIRequest", "TypeError", "string",
            <<"e", "r", "r", "o", "r", "M", "s", "g", ".", "i", "n", "c", "l", "u",
              "d", "e", "s", " ", "i", "s", " ", "n", "o", "t", " ", "a", " ", "f",
              "u", "n", "c", "t", "i", "o", "n">>)

\* error?.message || "" : [str |-> is it a string, v |-> its characters]
ErrorMsg(error) ==
    IF error.kind \in {"null", "undefined", "string"} \/ error.msgType = "absent"
    THEN [str |-> TRUE, v |-> <<>>]
    ELSE IF error.msgType = "string" THEN [str |-> TRUE, v |-> error.message]
    ELSE IF error.message = <<"0">> THEN [str |-> TRUE, v |-> <<>>]
    ELSE [str |-> FALSE, v |-> error.message]

\* SafeCatch with the RESOURCE_EXHAUSTED test left out
SafeCatch_Only429(error) ==
    LET errorMsg == ErrorMsg(error)
    IN  IF ~errorMsg.str THEN [thrown |-> IncludesTypeError, logged |-> 0]
        ELSE IF Includes(errorMsg.v, QuotaMarker429)
        THEN [thrown |-> QuotaExceeded, logged |-> 0]
        ELSE [thrown |-> error, logged |-> 1]

\* SafeCatch throwing a new Error built from the message instead of the
\* caught value
SafeCatch_Wrap(error) ==
    LET errorMsg == ErrorMsg(error)
    IN  IF ~errorMsg.str THEN [thrown |-> IncludesTypeError, logged |-> 0]
        ELSE IF Includes(errorMsg.v, QuotaMarker429)
                \/ Includes(errorMsg.v, QuotaMarkerExhausted)
        THEN [thrown |-> QuotaExceeded, logged |-> 0]
        ELSE [thrown |-> MkError("safeGenAIRequest", "Error", "string", errorMsg.v),
              logged |-> 1]

\* a catch block that writes its console.error entry before it classifies
SafeCatch_LogFirst(error) ==
    LET errorMsg == ErrorMsg(error)
    IN  IF ~errorMsg.str THEN [thrown |-> IncludesTypeError, logged |-> 1]
        ELSE IF Includes(errorMsg.v, QuotaMarker429)
                \/ Includes(errorMsg.v, QuotaMarkerExhausted)
        THEN [thrown |-> QuotaExceeded, logged |-> 1]
        ELSE [thrown |-> error, logged |-> 1]

\* the catch block of safeGenAIRequest: the value it throws and the number
\* of console.error entries it writes
SafeCatch(error) ==
    LET errorMsg == ErrorMsg(error)
    IN  IF ~errorMsg.str THEN [thrown |-> IncludesTypeError, logged |-> 0]
        ELSE IF Includes(errorMsg.v, QuotaMarker429)
                \/ Includes(errorMsg.v, QuotaMarkerExhausted)
        THEN [thrown |-> QuotaExceeded, logged |-> 0]
        ELSE [thrown |-> error, logged |-> 1]

(***************************************************************************)
(* The SyntaxError of JSON.parse.  Its message is engine-defined: one      *)
(* family of engines reports the offending position, another echoes the    *)
(* source text around it (the whole text when it is shorter than 21        *)
(* characters, else 10 characters on either side).                         *)
(***************************************************************************)

ParseErrorFormats == {"position", "echo"}

Max(a, b) == IF a > b THEN a ELSE b

Min(a, b) == IF a < b THEN a ELSE b

ParseErrorMessage(format, text, pos) ==
    IF pos > Len(text)
    THEN <<"U", "n", "e", "x", "p", "e", "c", "t", "e", "d", " ", "e", "n", "d", " ",
           "o", "f", " ", "J", "S", "O", "N", " ", "i", "n", "p", "u", "t">>
    ELSE IF format = "position"
    THEN <<"U", "n", "e", "x", "p", "e", "c", "t", "e", "d", " ", "t", "o", "k", "e",
           "n", " ", "i", "n", " ", "J", "S", "O", "N", " ", "a", "t", " ", "p", "o",
           "s", "i", "t", "i", "o", "n", " ">> \o Decimal(pos - 1)
    ELSE <<"U", "n", "e", "x", "p", "e", "c", "t", "e", "d", " ", "t", "o", "k", "e",
           "n", ",", " ", "\"">>
         \o (IF Len(text) < 21 THEN text
             ELSE SubSeq(text, Max(1, pos - 10), Min(Len(text), pos + 10)))
         \o <<"\"", " ", "i", "s", " ", "n", "o", "t", " ", "v", "a", "l", "i", "d", " ",
              "J", "S", "O", "N">>

SyntaxError(format, text, pos) ==
    MkError("JSON.parse", "SyntaxError", "string", ParseErrorMessage(format, text, pos))

(***************************************************************************)
(* Backend responses: response.text, the grounding chunks of the first     *)
(* candidate and the content parts of the first candidate.                 *)
(***************************************************************************)

NoText == [has |-> FALSE, s |-> <<>>]

NoChunks == [has |-> FALSE, list |-> <<>>]

NoContent == [kind |-> "nocontent", parts |-> <<>>]

MkResponse(text, chunks, content) == [text |-> text, chunks |-> chunks, content |-> content]

NoResponse == MkResponse(NoText, NoChunks, NoContent)

\* response.text ?? '{}': the default taken for an absent text only
TextOrDefault_AbsentOnly(text) == IF text.has THEN text.s ELSE <<"{", "}">>

\* response.text || '{}'
TextOrDefault(text) == IF text.has /\ text.s # <<>> THEN text.s ELSE <<"{", "}">>

\* ChunkComplete without the test of the title
ChunkComplete_UriOnly(chunk) == chunk.kind = "web" /\ chunk.uri # ""

\* chunk.web?.uri && chunk.web?.title
ChunkComplete(chunk) == chunk.kind = "web" /\ chunk.uri # "" /\ chunk.title # ""

GroundingSource(chunk) == [title |-> chunk.title, uri |-> chunk.uri]

RECURSIVE PushSources(_)
PushSources(list) ==
    IF list = <<>> THEN <<>>
    ELSE IF ChunkComplete(Head(list))
    THEN <<GroundingSource(Head(list))>> \o PushSources(Tail(list))
    ELSE PushSources(Tail(list))

\* lines 112-120: reading .web of a null entry throws a TypeError
ExtractSources(chunks) ==
    IF ~chunks.has THEN [ok |-> TRUE, sources |-> <<>>]
    ELSE IF \E i \in 1..Len(chunks.list) : chunks.list[i].kind = "null"
    THEN [ok |-> FALSE, sources |-> <<>>]
    ELSE [ok |-> TRUE, sources |-> PushSources(chunks.list)]

(***************************************************************************)
(* Values returned to the caller.  attached says whether the value carries *)
(* the `sources` property written by grounding attachment.                 *)
(***************************************************************************)

MkResult(kind, data, attached, sources, str) ==
    [kind |-> kind, data |-> data, attached |-> attached, sources |-> sources, str |-> str]

NoResult == MkResult("none", JsonUndefined, FALSE, <<>>, <<>>)

RECURSIVE IndexKeys(_)
IndexKeys(n) == IF n = 0 THEN <<>> ELSE Append(IndexKeys(n - 1), Decimal(n - 1))

\* Spread losing the members of an object
Spread_MembersLost(data) == JsonValue("object", <<>>, <<>>, <<>>)

\* { ...data }: the own enumerable properties of a parsed value
Spread(data) ==
    IF data.t = "object" THEN data
    ELSE IF data.t = "array"
    THEN JsonValue("object", <<>>, IndexKeys(Len(data.items)), data.items)
    ELSE IF data.t = "string"
    THEN JsonValue("object", <<>>, IndexKeys(Len(data.s)),
                   [i \in 1..Len(data.s) |-> JsonValue("string", <<data.s[i]>>, <<>>, <<>>)])
    ELSE JsonValue("object", <<>>, <<>>, <<>>)

(***************************************************************************)
(* The function each operation hands to safeGenAIRequest, from the point   *)
(* where the backend call has resolved with resp.  A completion records    *)
(* how the function settles and what it did on the way.                    *)
(***************************************************************************)

Completion(status, value, error, parses, repairs, phases) ==
    [status |-> status, value |-> value, error |-> error,
     parses |-> parses, repairs |-> repairs, phases |-> phases]

NotSettled == Completion("pending", NoResult, NoError, 0, 0, <<>>)

\* the catch block repairing and parsing a second time when the repaired
\* text still fails to parse
EnvSolutionTwice(twice, third, before, format) ==
    IF third.ok
    THEN Completion("fulfilled", MkResult("json", third.val, FALSE, <<>>, <<>>),
                    NoError, 3, 2, before \o <<"ParsingRepaired", "ParsingRepaired">>)
    ELSE Completion("rejected", NoResult, SyntaxError(format, twice, third.pos),
                    3, 2, before \o <<"ParsingRepaired", "ParsingRepaired">>)

EnvSolutionRepaired_Loop(repairedJson, again, before, format) ==
    IF again.ok
    THEN Completion("fulfilled", MkResult("json", again.val, FALSE, <<>>, <<>>),
                    NoError, 2, 1, Append(before, "ParsingRepaired"))
    ELSE EnvSolutionTwice(tryRepairJson(repairedJson), JSONparse(tryRepairJson(repairedJson)),
                          before, format)

\* lines 125-126: again is JSON.parse(repairedJson); before tells whether
\* grounding extraction had been entered
EnvSolutionRepaired(repairedJson, again, before, format) ==
    IF again.ok
    THEN Completion("fulfilled", MkResult("json", again.val, FALSE, <<>>, <<>>),
                    NoError, 2, 1, Append(before, "ParsingRepaired"))
    ELSE Completion("rejected", NoResult, SyntaxError(format, repairedJson, again.pos),
                    2, 1, Append(before, "ParsingRepaired"))

\* lines 123-127: the catch block
EnvSolutionCatch(repairedJson, before, format) ==
    EnvSolutionRepaired(repairedJson, JSONparse(repairedJson), before, format)

\* lines 108-122: strict is JSON.parse(jsonText), ext the grounding extraction
EnvSolutionTry(jsonText, strict, ext, format) ==
    IF strict.ok /\ ext.ok
    THEN Completion("fulfilled",
                    MkResult("json", Spread(strict.val), TRUE, ext.sources, <<>>),
                    NoError, 1, 0, <<"ParsingStrict", "AttachingGrounding">>)
    ELSE EnvSolutionCatch(tryRepairJson(jsonText),
                          IF strict.ok THEN <<"ParsingStrict", "AttachingGrounding">>
                          ELSE <<"ParsingStrict">>,
                          format)

getEnvironmentalSolution(resp, format) ==
    EnvSolutionTry(TextOrDefault(resp.text), JSONparse(TextOrDefault(resp.text)),
                   ExtractSources(resp.chunks), format)

\* return JSON.parse(response.text || '{}') : strict is the parse of jsonText
ParseOnly(jsonText, strict, format) ==
    IF strict.ok
    THEN Completion("fulfilled", MkResult("json", strict.val, FALSE, <<>>, <<>>),
                    NoError, 1, 0, <<"ParsingStrict">>)
    ELSE Completion("rejected", NoResult, SyntaxError(format, jsonText, strict.pos),
                    1, 0, <<"ParsingStrict">>)

generateSustainabilityPlan(resp, format) ==
    ParseOnly(TextOrDefault(resp.text), JSONparse(TextOrDefault(resp.text)), format)

getEcoStatus(resp, format) ==
    ParseOnly(TextOrDefault(resp.text), JSONparse(TextOrDefault(resp.text)), format)

DataUriPrefix ==
    <<"d", "a", "t", "a", ":", "i", "m", "a", "g", "e", "/", "p", "n", "g", ";", "b", "a", "s", "e", "6", "4", ",">>

AudioSynthesisFailed ==
    <<"A", "u", "d", "i", "o", " ", "s", "y", "n", "t", "h", "e", "s", "i", "s", " ", "f", "a", "i", "l", "e", "d">>

NotCorrectlyEncoded ==
    <<"T", "h", "e", " ", "s", "t", "r", "i", "n", "g", " ", "t", "o", " ", "b", "e", " ", "d", "e", "c", "o", "d", "e", "d", " ", "i", "s", " ", "n", "o", "t", " ", "c", "o", "r", "r", "e", "c", "t", "l", "y", " ", "e", "n", "c", "o", "d", "e", "d">>

NotMultipleOfTwo ==
    <<"b", "y", "t", "e", " ", "l", "e", "n", "g", "t", "h", " ", "o", "f", " ", "I", "n", "t", "1", "6", "A", "r", "r", "a", "y", " ", "s", "h", "o", "u", "l", "d", " ", "b", "e", " ", "a", " ", "m", "u", "l", "t", "i", "p", "l", "e", " ", "o", "f", " ", "2">>

\* reading .find of an undefined parts list
PartsTypeError ==
    MkError("engine", "TypeError", "string",
            <<"C", "a", "n", "n", "o", "t", " ", "r", "e", "a", "d", " ", "p", "r", "o", "p", "e", "r", "t", "i", "e", "s", " ", "o", "f", " ", "u", "n", "d", "e", "f", "i", "n", "e", "d">>)

generateVisualIllustration(resp) ==
    LET parts == resp.content.parts
        inline == {i \in 1..Len(parts) : parts[i].inline}
        part == parts[CHOOSE i \in inline : \A j \in inline : i <= j]
    IN  IF resp.content.kind = "nocontent"
        THEN Completion("fulfilled", MkResult("string", JsonUndefined, FALSE, <<>>, <<>>),
                        NoError, 0, 0, <<>>)
        ELSE IF resp.content.kind = "noparts"
        THEN Completion("rejected", NoResult, PartsTypeError, 0, 0, <<>>)
        ELSE IF inline = {}
        THEN Completion("fulfilled", MkResult("string", JsonUndefined, FALSE, <<>>, <<>>),
                        NoError, 0, 0, <<>>)
        ELSE Completion("fulfilled",
                        MkResult("string", JsonUndefined, FALSE, <<>>, DataUriPrefix \o part.data),
                        NoError, 0, 0, <<>>)

generateProImage(resp) ==
    LET parts == resp.content.parts
        inline == {i \in 1..Len(parts) : parts[i].inline}
        part == parts[CHOOSE i \in inline : \A j \in inline : i <= j]
    IN  IF resp.content.kind = "nocontent"
        THEN Completion("fulfilled", MkResult("string", JsonUndefined, FALSE, <<>>, <<>>),
                        NoError, 0, 0, <<>>)
        ELSE IF resp.content.kind = "noparts"
        THEN Completion("rejected", NoResult, PartsTypeError, 0, 0, <<>>)
        ELSE IF inline = {}
        THEN Completion("fulfilled", MkResult("string", JsonUndefined, FALSE, <<>>, <<>>),
                        NoError, 0, 0, <<>>)
        ELSE Completion("fulfilled",
                        MkResult("string", JsonUndefined, FALSE, <<>>, DataUriPrefix \o part.data),
                        NoError, 0, 0, <<>>)

\* atob rejects a character outside the base64 alphabet and a length of
\* 4n + 1; the texts of the model carry no padding
Base64Chars == {"A", "B", "Q", "g", "0", "9", "+", "/"}

AtobFails(b64) == (\E i \in 1..Len(b64) : b64[i] \notin Base64Chars) \/ Len(b64) % 4 = 1

\* number of bytes decode() returns
DecodedLength(b64) == (Len(b64) * 3) \div 4

generateSpeech(resp) ==
    LET parts == resp.content.parts
        base64Audio == IF resp.content.kind = "parts" /\ Len(parts) > 0 /\ parts[1].inline
                       THEN parts[1].data ELSE <<>>
    IN  IF base64Audio = <<>>
        THEN Completion("rejected", NoResult,
                        MkError("generateSpeech", "Error", "string", AudioSynthesisFailed),
                        0, 0, <<>>)
        ELSE IF AtobFails(base64Audio)
        THEN Completion("rejected", NoResult,
                        MkError("atob", "DOMException", "string", NotCorrectlyEncoded),
                        0, 0, <<>>)
        ELSE IF DecodedLength(base64Audio) % 2 # 0
        THEN Completion("rejected", NoResult,
                        MkError("Int16Array", "RangeError", "string", NotMultipleOfTwo),
                        0, 0, <<>>)
        ELSE Completion("fulfilled", MkResult("audio", JsonUndefined, FALSE, <<>>, base64Audio),
                        NoError, 0, 0, <<>>)

(***************************************************************************)
(* Inputs                                                                  *)
(***************************************************************************)

MaxTextLen == 1

MaxChunks == 2

MaxParts == 2

MaxMsgLen == 3

SeqsUpTo(S, n) == UNION {[1..k -> S] : k \in 0..n}

TextAlphabet == {"{", "}", "[", "]", "\"", "4"}

SampleTexts ==
    { <<"{", "\"", "a", "\"", ":", " ", "\"", "h", "e", "l", "l", "o", "\"", "}">>,
      <<"{", "\"", "a", "\"", ":", " ", "\"", "h", "e", "l", "l", "o">>,
      <<"{", "\"", "l", "i", "s", "t", "\"", ":", " ", "[", "\"", "x", "\"", ",", " ", "\"", "y", "\"">>,
      <<"{", "\"", "a", "\"", ":", " ", "1", ",", "}">>,
      <<"{", "\"", "s", "e", "c", "t", "i", "o", "n", "\"", ":", " ", "\"", "W", "a", "t", "e", "r", "\"", "}">>,
      <<"[", "4", "2", "9", ",", "x", "]">>,
      <<"R", "E", "S", "O", "U", "R", "C", "E", "_", "E", "X", "H", "A", "U", "S", "T", "E", "D">>,
      <<" ", "{", "}", " ">>,
      <<" ", "{", "\"", "a", "\"", ":", " ", "1", ",", "}">>,
      <<"{", "\"", "a", "\"", ":", " ", "[", "{", "\"", "b", "\"", ":", " ", "\"", "c">>,
      <<"\"", "a", "b", "c">> }

Texts ==
    {NoText} \cup {[has |-> TRUE, s |-> x] : x \in SampleTexts \cup SeqsUpTo(TextAlphabet, MaxTextLen)}

ChunkKinds ==
    { [kind |-> "web", uri |-> "u1", title |-> "t1"],
      [kind |-> "web", uri |-> "u1", title |-> "t2"],
      [kind |-> "web", uri |-> "u1", title |-> ""],
      [kind |-> "web", uri |-> "", title |-> "t1"],
      [kind |-> "noweb", uri |-> "", title |-> ""],
      [kind |-> "null", uri |-> "", title |-> ""] }

ChunkLists ==
    {NoChunks} \cup {[has |-> TRUE, list |-> l] : l \in SeqsUpTo(ChunkKinds, MaxChunks)}

PartKinds ==
    { [inline |-> FALSE, data |-> <<>>],
      [inline |-> TRUE, data |-> <<>>],
      [inline |-> TRUE, data |-> <<"A", "A", "A">>],
      [inline |-> TRUE, data |-> <<"Q", "g">>],
      [inline |-> TRUE, data |-> <<"!">>] }

Contents ==
    {NoContent, [kind |-> "noparts", parts |-> <<>>]}
    \cup {[kind |-> "parts", parts |-> l] : l \in SeqsUpTo(PartKinds, MaxParts)}

Ops == {"getEnvironmentalSolution", "generateSustainabilityPlan", "getEcoStatus",
        "generateSpeech", "generateVisualIllustration", "generateProImage"}

StructuredOps == {"getEnvironmentalSolution", "generateSustainabilityPlan", "getEcoStatus"}

\* the operations whose request carries tools: [{ googleSearch: {} }]
GroundedOps == {"getEnvironmentalSolution", "getEcoStatus"}

\* what the backend can answer to the request of operation o: grounding
\* chunks come only with the answer to a request that enables googleSearch
Responses(o) ==
    IF o \in GroundedOps
    THEN {MkResponse(x, g, NoContent) : x \in Texts, g \in ChunkLists}
    ELSE IF o \in StructuredOps
    THEN {MkResponse(x, NoChunks, NoContent) : x \in Texts}
    ELSE {MkResponse(NoText, NoChunks, c) : c \in Contents}

MessageAlphabet == {"4", "2", "9", "x"}

SampleMessages ==
    { <<"4", "2", "9", " ", "T", "o", "o", " ", "M", "a", "n", "y", " ", "R", "e", "q", "u", "e", "s", "t", "s">>,
      <<"R", "E", "S", "O", "U", "R", "C", "E", "_", "E", "X", "H", "A", "U", "S", "T", "E", "D">>,
      <<"q", "u", "o", "t", "a", " ", "R", "E", "S", "O", "U", "R", "C", "E", "_", "E", "X", "H", "A", "U", "S", "T", "E", "D", " ", "n", "o", "w">>,
      <<"5", "0", "0", " ", "I", "n", "t", "e", "r", "n", "a", "l", " ", "e", "r", "r", "o", "r">>,
      <<"H", "T", "T", "P", " ", "4", "2", "9", "0">>,
      <<"4", " ", "2", " ", "9">>,
      <<"A", "P", "I", "_", "Q", "U", "O", "T", "A", "_", "E", "X", "C", "E", "E", "D", "E", "D">> }

Messages == SampleMessages \cup SeqsUpTo(MessageAlphabet, MaxMsgLen)

\* what a generation call can throw: an Error with a string message, null,
\* undefined, a thrown string, an object without message, an object whose
\* message is a number
BackendErrors ==
    {MkError("backend", "Error", "string", m) : m \in Messages}
    \cup { MkError("backend", "null", "absent", <<>>),
           MkError("backend", "undefined", "absent", <<>>),
           MkError("backend", "string", "absent", <<"4", "2", "9">>),
           MkError("backend", "object", "absent", <<>>),
           MkError("backend", "object", "number", <<"4", "2", "9">>),
           MkError("backend", "object", "number", <<"5">>),
           MkError("backend", "object", "number", <<"0">>) }

\* the function passed to safeGenAIRequest, run on a resolved backend call
RequestFn(o, resp, fmt) ==
    CASE o = "getEnvironmentalSolution" -> getEnvironmentalSolution(resp, fmt)
      [] o = "generateSustainabilityPlan" -> generateSustainabilityPlan(resp, fmt)
      [] o = "getEcoStatus" -> getEcoStatus(resp, fmt)
      [] o = "generateSpeech" -> generateSpeech(resp)
      [] o = "generateVisualIllustration" -> generateVisualIllustration(resp)
      [] o = "generateProImage" -> generateProImage(resp)

(***************************************************************************)
(* One orchestration call at a time: the caller starts an operation, the   *)
(* backend call settles, the wrapped function runs to its end, and         *)
(* safeGenAIRequest returns its value or classifies its failure.           *)
(***************************************************************************)

VARIABLES op, pc, format, backend, inner, result, error, backendCalls, logs

vars == <<op, pc, format, backend, inner, result, error, backendCalls, logs>>

\* repair: a direct call of tryRepairJson, its argument and its return value
\* calls:  the orchestration calls in flight side by side, by call
\* ui:     the state of the App component and its running searches
VARIABLES repair, calls, ui

\* tryRepairJson has not been called
NoRepair == [jsonStr |-> <<>>, cleaned |-> <<>>, returned |-> FALSE]

\* no side-by-side calls are tracked
NoCalls == <<>>

\* the searches performGlobalSearch can have running at a time
SearchIds == {1, 2}

NoSolution == [set |-> FALSE, by |-> 0, value |-> NoResult]

NoIllustration == [set |-> FALSE, by |-> 0, value |-> <<>>]

SearchAtRest == [stage |-> "Idle", caught |-> NoError]

\* the useState initial values of SustainabilityPlanner; requests counts
\* the calls of generateSustainabilityPlan the component has made
PlannerInitial == [goal |-> <<>>, loading |-> FALSE, plan |-> NoResult, requests |-> 0]

\* the habits of HabitTracker when nothing has been saved
DefaultHabits ==
    << [id |-> "1", name |-> "Reusable Bottle", completed |-> FALSE, streak |-> 3],
       [id |-> "2", name |-> "Composting", completed |-> FALSE, streak |-> 12],
       [id |-> "3", name |-> "Cold Wash Only", completed |-> FALSE, streak |-> 0] >>

\* the runs of startLiveTranscription there can be at a time; run i creates
\* audio context i and live session i
StartIds == {1, 2}

\* the useState and useRef initial values of App and of the components it
\* renders (a ref holds 0 for null, else the run that created the object);
\* latest is the search whose handler ran last (0 before the first);
\* openSessions and openContexts are the live sessions and audio contexts
\* created and not closed
UiInitial ==
    [ view |-> "Dashboard", loading |-> FALSE, loadingStep |-> "", recording |-> FALSE,
      solution |-> NoSolution, illustrationUrl |-> NoIllustration,
      quotaError |-> FALSE, researchError |-> FALSE,
      searches |-> [s \in SearchIds |-> SearchAtRest],
      latest |-> 0,
      planner |-> PlannerInitial,
      liveSessionRef |-> 0, audioContextRef |-> 0,
      starts |-> [i \in StartIds |-> "Idle"],
      openSessions |-> {}, openContexts |-> {},
      habits |-> DefaultHabits ]

BackendState(status, resp, err) == [status |-> status, resp |-> resp, err |-> err]

Init ==
    /\ op = "none"
    /\ pc = "Idle"
    /\ format \in ParseErrorFormats
    /\ backend = BackendState("idle", NoResponse, NoError)
    /\ inner = NotSettled
    /\ result = NoResult
    /\ error = NoError
    /\ backendCalls = 0
    /\ logs = 0
    /\ repair = NoRepair
    /\ calls = NoCalls
    /\ ui = UiInitial

\* the caller invokes an operation: the request is built and sent
StartCall ==
    /\ pc \in {"Idle", "Done", "Failed"}
    /\ \E o \in Ops : op' = o
    /\ pc' = "Calling"
    /\ backend' = BackendState("pending", NoResponse, NoError)
    /\ inner' = NotSettled
    /\ result' = NoResult
    /\ error' = NoError
    /\ backendCalls' = 1
    /\ logs' = 0
    /\ UNCHANGED <<format, repair, calls, ui>>

\* ai.models.generateContent resolves with a response; the rest of the
\* wrapped function runs
BackendResolves ==
    /\ pc = "Calling"
    /\ \E resp \in Responses(op) :
          /\ inner' = RequestFn(op, resp, format)
          /\ backend' = BackendState("resolved", resp, NoError)
    /\ pc' = "Settling"
    /\ UNCHANGED <<op, format, result, error, backendCalls, logs, repair, calls, ui>>

\* BackendRejects with the wrapped function swallowing the failure of a
\* structured request and going on as if the response had no text
BackendRejects_ParsesDefault ==
    /\ pc = "Calling"
    /\ \E err \in BackendErrors :
          /\ inner' = IF op \in StructuredOps THEN RequestFn(op, NoResponse, format)
                       ELSE Completion("rejected", NoResult, err, 0, 0, <<>>)
          /\ backend' = BackendState("rejected", NoResponse, err)
    /\ pc' = "Settling"
    /\ UNCHANGED <<op, format, result, error, backendCalls, logs, repair, calls, ui>>

\* ai.models.generateContent rejects with an error
BackendRejects ==
    /\ pc = "Calling"
    /\ \E err \in BackendErrors :
          /\ inner' = Completion("rejected", NoResult, err, 0, 0, <<>>)
          /\ backend' = BackendState("rejected", NoResponse, err)
    /\ pc' = "Settling"
    /\ UNCHANGED <<op, format, result, error, backendCalls, logs, repair, calls, ui>>

\* SettleOutcome answering a parse failure with an empty object instead of
\* failing
SettleOutcome_Degraded(settled) ==
    IF settled.status = "fulfilled"
    THEN [pc |-> "Done", result |-> settled.value, error |-> NoError, logged |-> 0]
    ELSE IF settled.error.origin = "JSON.parse"
    THEN [pc |-> "Done",
          result |-> MkResult("json", JsonValue("object", <<>>, <<>>, <<>>), FALSE, <<>>, <<>>),
          error |-> NoError, logged |-> 1]
    ELSE LET c == SafeCatch(settled.error)
         IN  [pc |-> "Failed", result |-> NoResult, error |-> c.thrown, logged |-> c.logged]

\* safeGenAIRequest after `await requestFn()`
SettleOutcome(settled) ==
    IF settled.status = "fulfilled"
    THEN [pc |-> "Done", result |-> settled.value, error |-> NoError, logged |-> 0]
    ELSE LET c == SafeCatch(settled.error)
         IN  [pc |-> "Failed", result |-> NoResult, error |-> c.thrown, logged |-> c.logged]

\* SafeSettle re-issuing the request once when the failure is a quota failure
SafeSettle_RetryOnQuota ==
    /\ pc = "Settling"
    /\ LET out == SettleOutcome(inner)
       IN  IF out.error = QuotaExceeded /\ backendCalls < 2
           THEN /\ pc' = "Calling"
                /\ backendCalls' = backendCalls + 1
                /\ backend' = BackendState("pending", NoResponse, NoError)
                /\ inner' = NotSettled
                /\ UNCHANGED <<result, error, logs>>
           ELSE /\ pc' = out.pc
                /\ result' = out.result
                /\ error' = out.error
                /\ logs' = logs + out.logged
                /\ UNCHANGED <<backend, inner, backendCalls>>
    /\ UNCHANGED <<op, format, repair, calls, ui>>

SafeSettle ==
    /\ pc = "Settling"
    /\ LET out == SettleOutcome(inner)
       IN  /\ pc' = out.pc
           /\ result' = out.result
           /\ error' = out.error
           /\ logs' = logs + out.logged
    /\ UNCHANGED <<op, format, backend, inner, backendCalls, repair, calls, ui>>

Next ==
    \/ StartCall
    \/ BackendResolves
    \/ BackendRejects
    \/ SafeSettle

Spec == Init /\ [][Next]_vars

\* the continuation of an awaited promise that has settled is always run
FairSpec == Spec /\ WF_vars(SafeSettle)

(***************************************************************************)
(* tryRepairJson called on its own: the argument is drawn from the texts   *)
(* below, each a prefix followed by up to MaxRepairLen characters.         *)
(***************************************************************************)

MaxRepairLen == 2

RepairAlphabet == {"{", "}", "[", "]", "\"", "\\", " ", "a"}

RepairPrefixes ==
    { <<>>,
      <<"{", "\"", "a", "\"", ":", " ", "\"", "h", "e", "l", "l", "o">>,
      <<"{", "\"", "l", "i", "s", "t", "\"", ":", " ", "[", "\"", "x", "\"", ",", " ", "\"", "y">>,
      <<"{", "\"", "a", "\"", ":", " ", "1", ",">> }

RepairInputs ==
    {p \o x : p \in RepairPrefixes, x \in SeqsUpTo(RepairAlphabet, MaxRepairLen)}

\* no orchestration call is running
ServiceAtRest ==
    /\ op = "none"
    /\ pc = "Idle"
    /\ format = "position"
    /\ backend = BackendState("idle", NoResponse, NoError)
    /\ inner = NotSettled
    /\ result = NoResult
    /\ error = NoError
    /\ backendCalls = 0
    /\ logs = 0

RepairInit ==
    /\ repair \in {[jsonStr |-> x, cleaned |-> <<>>, returned |-> FALSE] : x \in RepairInputs}
    /\ ServiceAtRest
    /\ calls = NoCalls
    /\ ui = UiInitial

\* tryRepairJson(jsonStr) runs and returns
RepairCall ==
    /\ ~repair.returned
    /\ repair' = [repair EXCEPT !.cleaned = tryRepairJson(repair.jsonStr),
                                !.returned = TRUE]
    /\ UNCHANGED <<vars, calls, ui>>

\* the caller passes the text returned to tryRepairJson again
RepairAgain ==
    /\ repair.returned
    /\ repair' = [repair EXCEPT !.jsonStr = repair.cleaned,
                                !.cleaned = tryRepairJson(repair.cleaned)]
    /\ UNCHANGED <<vars, calls, ui>>

RepairNext == RepairCall \/ RepairAgain

RepairSpec == RepairInit /\ [][RepairNext]_<<vars, repair, calls, ui>>

(***************************************************************************)
(* Properties                                                              *)
(***************************************************************************)

Terminal == pc \in {"Done", "Failed"}

\* error.message is a string
HasStringMessage(e) == e.kind \notin {"null", "undefined", "string"} /\ e.msgType = "string"

\* error.message is absent (or the thrown value has no properties at all)
HasNoMessage(e) == e.kind \in {"null", "undefined", "string"} \/ e.msgType = "absent"

HasQuotaMarker(m) == Includes(m, QuotaMarker429) \/ Includes(m, QuotaMarkerExhausted)

\* the text the structured operations parse
ResponseText == TextOrDefault(backend.resp.text)

Msg429TooManyRequests ==
    <<"4", "2", "9", " ", "T", "o", "o", " ", "M", "a", "n", "y", " ", "R", "e", "q", "u",
      "e", "s", "t", "s">>

Msg500InternalError ==
    <<"5", "0", "0", " ", "I", "n", "t", "e", "r", "n", "a", "l", " ", "e", "r", "r", "o", "r">>

\* C1: in every operation, when the wrapped request fails with an error
\* whose message is a string containing "429" or "RESOURCE_EXHAUSTED", the
\* caller receives QuotaExceeded, a new Error("API_QUOTA_EXCEEDED"), and
\* not the error that was caught.
C1_QuotaClassified ==
    (pc = "Failed" /\ HasStringMessage(inner.error) /\ HasQuotaMarker(inner.error.message))
        => (error = QuotaExceeded /\ error # inner.error /\ error.message = API_QUOTA_EXCEEDED)

C1_Witness ==
    /\ pc = "Failed"
    /\ backend.status = "rejected"
    /\ backend.err = MkError("backend", "Error", "string", Msg429TooManyRequests)
    /\ error = QuotaExceeded

\* C2: when the backend call fails with an error whose message is a string
\* (possibly empty) containing neither "429" nor "RESOURCE_EXHAUSTED", or
\* with a value that has no message, the caller receives that very value:
\* same origin, same kind, same message.
C2_UpstreamRethrown ==
    (pc = "Failed" /\ backend.status = "rejected"
        /\ \/ HasNoMessage(backend.err)
           \/ HasStringMessage(backend.err) /\ ~HasQuotaMarker(backend.err.message))
        => (error = backend.err /\ error.origin = "backend")

C2_Witness ==
    /\ pc = "Failed"
    /\ backend.err = MkError("backend", "Error", "string", Msg500InternalError)
    /\ error = backend.err

\* C3: whatever value the generation call throws, the classifier ends with
\* QuotaExceeded or with the caught value rethrown, never with an error of
\* its own.
C3_ClassifierTotal ==
    (pc = "Failed" /\ backend.status = "rejected")
        => (error = QuotaExceeded \/ error = backend.err)

\* C4: a SyntaxError raised by JSON.parse (strict or after repair) reaches
\* the caller as it is and is never replaced by QuotaExceeded.
C4_ParseErrorKept ==
    (pc = "Failed" /\ inner.error.origin = "JSON.parse") => error = inner.error

\* C5: when the strict parse of a research-report response fails and the
\* repaired text parses, the returned result carries `sources` holding the
\* complete grounding chunks of the response.
C5_RepairedHasSources ==
    (op = "getEnvironmentalSolution" /\ pc = "Done" /\ ~JSONparse(ResponseText).ok)
        => (result.attached /\ result.sources = PushSources(backend.resp.chunks.list))

\* C6: when the response text is valid JSON, tryRepairJson is not invoked
\* during the call, whatever the grounding metadata holds.
C6_ValidNeverRepaired ==
    (op \in StructuredOps /\ backend.status = "resolved"
        /\ backend.resp.text.has /\ JSONparse(backend.resp.text.s).ok)
        => inner.repairs = 0

\* C7: a structured operation whose response parses strictly and whose
\* grounding chunks are well formed ends in Done with a result that has a
\* source list: the sources extracted from the grounding chunks for the
\* operations that enable googleSearch, the empty list for the others.
C7_GroundingAttached ==
    (op \in StructuredOps /\ pc = "Done" /\ JSONparse(ResponseText).ok
        /\ ExtractSources(backend.resp.chunks).ok)
        => /\ result.attached
           /\ result.sources = IF op \in GroundedOps
                               THEN PushSources(backend.resp.chunks.list)
                               ELSE <<>>

\* C8: in each of the three structured operations a strict-parse failure is
\* followed by exactly one repair and one re-parse before the call ends.
C8_SameStateMachine ==
    (op \in StructuredOps /\ Terminal /\ backend.status = "resolved"
        /\ ~JSONparse(ResponseText).ok)
        => (inner.repairs = 1 /\ inner.parses = 2)

\* C9: within one call tryRepairJson runs at most once and JSON.parse at
\* most twice (never a re-parse without a repair); when the repaired text
\* still fails to parse, the wrapped function rejects after that second
\* parse and the call ends in Failed, not in Done.
C9_RepairAtMostOnce ==
    /\ inner.repairs <= 1
    /\ inner.parses <= inner.repairs + 1
    /\ (inner.repairs >= 1 /\ ~JSONparse(tryRepairJson(ResponseText)).ok)
           => (inner.parses = 2 /\ inner.status = "rejected" /\ pc # "Done"
               /\ inner.error.origin = "JSON.parse")

C9_Witness ==
    /\ pc = "Failed"
    /\ inner.repairs = 1
    /\ inner.parses = 2
    /\ ~JSONparse(tryRepairJson(ResponseText)).ok

\* C10: a call whose backend request has settled reaches a terminal state,
\* Done with the value of the wrapped function and no error, or Failed with
\* an error and no result; a failure of the wrapped function never ends in
\* Done, a terminal state is left only by a new call, and a new call starts
\* with nothing of the previous one.
C10_OneTerminalState ==
    /\ [](pc = "Done" => (inner.status = "fulfilled" /\ result = inner.value
                          /\ error = NoError))
    /\ [](pc = "Failed" => (inner.status = "rejected" /\ result = NoResult
                            /\ error # NoError))
    /\ [][Terminal => (pc' = pc \/ pc' = "Calling")]_vars
    /\ [][pc' = "Calling" => (result' = NoResult /\ error' = NoError
                               /\ inner' = NotSettled
                               /\ backend' = BackendState("pending", NoResponse, NoError)
                               /\ logs' = 0)]_vars
    /\ (pc = "Settling" ~> Terminal)

C10_Witness ==
    /\ pc = "Failed"
    /\ inner.error.origin = "JSON.parse"
    /\ inner.repairs = 1
    /\ result = NoResult

\* C11: when the backend invocation throws, in any of the operations, the
\* wrapped function rejects with the thrown value without having parsed,
\* repaired or extracted anything, and the next step of the call is the
\* classifier's, which ends the call in Failed with the value it throws.
C11_ThrowSkipsParsing ==
    /\ [](backend.status = "rejected"
            => /\ pc \in {"Settling", "Failed"}
               /\ inner.status = "rejected" /\ inner.error = backend.err
               /\ inner.parses = 0 /\ inner.repairs = 0 /\ inner.phases = <<>>)
    /\ [][(pc = "Calling" /\ backend'.status = "rejected") => pc' = "Settling"]_vars
    /\ [][(pc = "Settling" /\ backend.status = "rejected")
            => (pc' = "Failed" /\ error' = SafeCatch(backend.err).thrown
                /\ result' = NoResult)]_vars

C11_Witness ==
    /\ pc = "Failed"
    /\ op = "getEnvironmentalSolution"
    /\ backend.status = "rejected"
    /\ inner.phases = <<>>

\* C12: from the moment a call is started until the next one is started the
\* backend has been invoked exactly once for it, however the call ends.
C12_BackendCalledOnce == pc # "Idle" => backendCalls = 1

C12_Witness ==
    /\ pc = "Done"
    /\ inner.repairs = 1
    /\ backendCalls = 1

\* the trimmed argument of the direct call of tryRepairJson
RepairTrimmed == Trim(repair.jsonStr)

\* the reference policy: a double-quote unless t ends with one, then one "]"
\* if the text so far has more "[" than "]", then one "}" if it has more "{"
\* than "}"; nothing at all when t ends with "}"
ReferenceQuote(t) == IF EndsWith(t, "\"") THEN t ELSE t \o <<"\"">>

ReferenceBracket(t) == IF CountOf(t, "[") > CountOf(t, "]") THEN t \o <<"]">> ELSE t

ReferenceBrace(t) == IF CountOf(t, "{") > CountOf(t, "}") THEN t \o <<"}">> ELSE t

ReferenceRepair(t) ==
    IF EndsWith(t, "}") THEN t ELSE ReferenceBrace(ReferenceBracket(ReferenceQuote(t)))

\* C13: tryRepairJson returns what the reference policy gives for the trimmed
\* argument; the trimmed argument is a prefix of the result and the result
\* is at most 3 characters longer.
C13_RepairIsReferencePolicy ==
    repair.returned
        => /\ repair.cleaned = ReferenceRepair(RepairTrimmed)
           /\ Len(repair.cleaned) >= Len(RepairTrimmed)
           /\ SubSeq(repair.cleaned, 1, Len(RepairTrimmed)) = RepairTrimmed
           /\ Len(repair.cleaned) <= Len(RepairTrimmed) + 3

\* a text with two unmatched "[" gets the quote, one "]" and nothing more
C13_Witness ==
    /\ repair.returned
    /\ CountOf(RepairTrimmed, "[") = CountOf(RepairTrimmed, "]") + 2
    /\ repair.cleaned = RepairTrimmed \o <<"\"", "]">>

HelloCut == <<"{", "\"", "a", "\"", ":", " ", "\"", "h", "e", "l", "l", "o">>

HelloRepaired == HelloCut \o <<"\"", "}">>

\* t is an object cut inside a string value: some quote of t opens a string
\* that runs to the end of t, and closing that string at once and then the
\* object gives valid JSON; one "{" is unmatched and no "[" is
CutInStringValue(t) ==
    /\ CountOf(t, "{") = CountOf(t, "}") + 1
    /\ CountOf(t, "[") <= CountOf(t, "]")
    /\ \E q \in 1..Len(t) :
          /\ t[q] = "\""
          /\ ScanString(t, q + 1) = 0
          /\ JSONparse(SubSeq(t, 1, q) \o <<"\"", "}">>).ok

ListCut ==
    <<"{", "\"", "l", "i", "s", "t", "\"", ":", " ", "[", "\"", "x", "\"", ",", " ",
      "\"", "y", "\"">>

\* the value of {"list": ["x", "y"]}
ListValue ==
    JsonValue("object", <<>>, << <<"l", "i", "s", "t">> >>,
              << JsonValue("array", <<>>, <<>>,
                           << JsonValue("string", <<"x">>, <<>>, <<>>),
                              JsonValue("string", <<"y">>, <<>>, <<>>) >>) >>)

EndsWithBraceInvalid ==
    /\ op = "getEnvironmentalSolution"
    /\ Terminal
    /\ backend.status = "resolved"
    /\ EndsWith(ResponseText, "}")
    /\ ~JSONparse(ResponseText).ok

\* the number of blanks trim removes in front of the response text
LeadingBlanks == Len(ResponseText) - Len(TrimStart(ResponseText))

ResponseChunks == backend.resp.chunks.list

\* every grounding chunk of the response is an object
ChunksAreObjects == \A i \in 1..Len(ResponseChunks) : ResponseChunks[i].kind # "null"

\* the chunks that have a web entry with a non-empty uri and a non-empty title
HasUriAndTitle(c) == c.kind = "web" /\ c.uri # "" /\ c.title # ""

ChunksWithUriAndTitle == SelectSeq(ResponseChunks, HasUriAndTitle)

\* C17: in a research-report call whose response text parses and whose
\* grounding chunks are objects, the extraction raises no error and the
\* sources are the chunks having a non-empty uri and a non-empty title, as
\* {title, uri} pairs, in their order and with repetitions; without a chunk
\* list the sources are empty.
C17_SourcesAreCompleteChunks ==
    (op = "getEnvironmentalSolution" /\ backend.status = "resolved"
        /\ JSONparse(ResponseText).ok /\ ChunksAreObjects)
        => /\ inner.status = "fulfilled"
           /\ inner.phases = <<"ParsingStrict", "AttachingGrounding">>
           /\ inner.value.attached
           /\ Len(inner.value.sources) = Len(ChunksWithUriAndTitle)
           /\ \A i \in 1..Len(ChunksWithUriAndTitle) :
                 inner.value.sources[i] = [title |-> ChunksWithUriAndTitle[i].title,
                                           uri |-> ChunksWithUriAndTitle[i].uri]
           /\ (~backend.resp.chunks.has => inner.value.sources = <<>>)

\* one chunk with uri and title, one without title: one source
C17_Witness ==
    /\ op = "getEnvironmentalSolution"
    /\ pc = "Done"
    /\ ResponseChunks = << [kind |-> "web", uri |-> "u1", title |-> "t1"],
                           [kind |-> "web", uri |-> "u1", title |-> ""] >>
    /\ result.sources = << [title |-> "t1", uri |-> "u1"] >>

\* the strict parse of the response text
ParsedResponse == JSONparse(ResponseText)

SectionWater ==
    <<"{", "\"", "s", "e", "c", "t", "i", "o", "n", "\"", ":", " ", "\"", "W", "a", "t",
      "e", "r", "\"", "}">>

\* C18: when the response text of a research report parses to an object and
\* the grounding chunks are objects, the result has the members of the
\* parsed object, names and values unchanged, and `sources`, as many as
\* there are chunks with a non-empty uri and a non-empty title.
C18_FieldsKeptSourcesAdded ==
    (op = "getEnvironmentalSolution" /\ pc = "Done" /\ ParsedResponse.ok
        /\ ParsedResponse.val.t = "object" /\ ChunksAreObjects)
        => /\ result.kind = "json"
           /\ result.data.t = "object"
           /\ result.data.keys = ParsedResponse.val.keys
           /\ result.data.items = ParsedResponse.val.items
           /\ result.attached
           /\ Len(result.sources)
                = Cardinality({i \in 1..Len(ResponseChunks) : HasUriAndTitle(ResponseChunks[i])})

\* section "Water" and two chunks with uri and title
C18_Witness ==
    /\ op = "getEnvironmentalSolution"
    /\ pc = "Done"
    /\ ResponseText = SectionWater
    /\ ResponseChunks = << [kind |-> "web", uri |-> "u1", title |-> "t1"],
                           [kind |-> "web", uri |-> "u1", title |-> "t2"] >>
    /\ result.data.keys = << <<"s", "e", "c", "t", "i", "o", "n">> >>
    /\ result.data.items = << JsonValue("string", <<"W", "a", "t", "e", "r">>, <<>>, <<>>) >>
    /\ Len(result.sources) = 2

(***************************************************************************)
(* Two orchestration calls side by side.  Each call has its own closure    *)
(* (operation, awaited backend call, wrapped function, outcome); the       *)
(* engine (format) and the console (logs) are the only things they share.  *)
(* A call is started once; the backend answers are drawn from a few        *)
(* responses and errors of each kind.                                      *)
(***************************************************************************)

CallIds == {1, 2}

CallAtRest ==
    [ op |-> "none", pc |-> "Idle", backend |-> BackendState("idle", NoResponse, NoError),
      inner |-> NotSettled, result |-> NoResult, error |-> NoError, backendCalls |-> 0 ]

ConcResponses(o) ==
    IF o \in StructuredOps
    THEN {MkResponse([has |-> TRUE, s |-> x], g, NoContent) :
            x \in {SectionWater, HelloCut, <<"{", "\"", "a", "\"", ":", " ", "1", ",", "}">>},
            g \in {NoChunks,
                   [has |-> TRUE, list |-> << [kind |-> "web", uri |-> "u1", title |-> "t1"] >>]}}
    ELSE {MkResponse(NoText, NoChunks, c) :
            c \in {NoContent,
                   [kind |-> "parts", parts |-> << [inline |-> TRUE, data |-> <<"A", "A", "A">>] >>]}}

ConcErrors ==
    { MkError("backend", "Error", "string", Msg429TooManyRequests),
      MkError("backend", "Error", "string", Msg500InternalError),
      MkError("backend", "null", "absent", <<>>) }

ConcInit ==
    /\ calls = [c \in CallIds |-> CallAtRest]
    /\ format \in ParseErrorFormats
    /\ logs = 0
    /\ op = "none"
    /\ pc = "Idle"
    /\ backend = BackendState("idle", NoResponse, NoError)
    /\ inner = NotSettled
    /\ result = NoResult
    /\ error = NoError
    /\ backendCalls = 0
    /\ repair = NoRepair
    /\ ui = UiInitial

ConcFrame == UNCHANGED <<op, pc, format, backend, inner, result, error, backendCalls, repair, ui>>

\* the caller invokes an operation as call c: the request is built and sent
ConcStart(c) ==
    /\ calls[c].pc = "Idle"
    /\ \E o \in Ops :
          calls' = [calls EXCEPT ![c] =
                      [@ EXCEPT !.op = o, !.pc = "Calling", !.backendCalls = 1,
                                !.backend = BackendState("pending", NoResponse, NoError)]]
    /\ UNCHANGED logs
    /\ ConcFrame

\* ConcResolves with one in-flight request per operation: the response
\* settles every call of that operation that is waiting
ConcResolves_SharedInFlight(c) ==
    /\ calls[c].pc = "Calling"
    /\ \E resp \in ConcResponses(calls[c].op) :
          calls' = [d \in CallIds |->
                      IF calls[d].pc = "Calling" /\ calls[d].op = calls[c].op
                      THEN [calls[d] EXCEPT !.inner = RequestFn(calls[c].op, resp, format),
                                            !.backend = BackendState("resolved", resp, NoError),
                                            !.pc = "Settling"]
                      ELSE calls[d]]
    /\ UNCHANGED logs
    /\ ConcFrame

\* the backend call of c resolves and the rest of its wrapped function runs
ConcResolves(c) ==
    /\ calls[c].pc = "Calling"
    /\ \E resp \in ConcResponses(calls[c].op) :
          calls' = [calls EXCEPT ![c] =
                      [@ EXCEPT !.inner = RequestFn(calls[c].op, resp, format),
                                !.backend = BackendState("resolved", resp, NoError),
                                !.pc = "Settling"]]
    /\ UNCHANGED logs
    /\ ConcFrame

\* the backend call of c rejects
ConcRejects(c) ==
    /\ calls[c].pc = "Calling"
    /\ \E err \in ConcErrors :
          calls' = [calls EXCEPT ![c] =
                      [@ EXCEPT !.inner = Completion("rejected", NoResult, err, 0, 0, <<>>),
                                !.backend = BackendState("rejected", NoResponse, err),
                                !.pc = "Settling"]]
    /\ UNCHANGED logs
    /\ ConcFrame

\* safeGenAIRequest of c after `await requestFn()`
ConcSettle(c) ==
    /\ calls[c].pc = "Settling"
    /\ LET out == SettleOutcome(calls[c].inner)
       IN  /\ calls' = [calls EXCEPT ![c] =
                          [@ EXCEPT !.pc = out.pc, !.result = out.result,
                                    !.error = out.error]]
           /\ logs' = logs + out.logged
    /\ ConcFrame

ConcNext ==
    \E c \in CallIds :
        \/ ConcStart(c)
        \/ ConcResolves(c)
        \/ ConcRejects(c)
        \/ ConcSettle(c)

ConcSpec == ConcInit /\ [][ConcNext]_<<vars, repair, calls, ui>>

\* what a call of operation o makes of the settled backend call b when it
\* runs alone
OutcomeAlone(o, b) ==
    SettleOutcome(IF b.status = "resolved" THEN RequestFn(o, b.resp, format)
                  ELSE Completion("rejected", NoResult, b.err, 0, 0, <<>>))

\* C19: of two calls side by side, each step changes one call only; a call
\* that has ended has the result or the error it would have alone with its
\* own operation and its own backend answer; and every started call has
\* issued its own backend request, also when the other call is the same
\* operation.
C19_CallsDoNotInteract ==
    /\ [](\A c \in CallIds :
            /\ calls[c].pc # "Idle" => calls[c].backendCalls = 1
            /\ calls[c].pc \in {"Done", "Failed"}
                 => /\ calls[c].pc = OutcomeAlone(calls[c].op, calls[c].backend).pc
                    /\ calls[c].result = OutcomeAlone(calls[c].op, calls[c].backend).result
                    /\ calls[c].error = OutcomeAlone(calls[c].op, calls[c].backend).error)
    /\ [][\A c, d \in CallIds : (c # d /\ calls'[c] # calls[c]) => calls'[d] = calls[d]]_calls

\* two research reports in flight together, the one started as call 2
\* answered while call 1 still waits, ending differently
C19_Witness ==
    /\ calls[1].op = "getEnvironmentalSolution"
    /\ calls[2].op = "getEnvironmentalSolution"
    /\ calls[1].pc = "Calling"
    /\ calls[2].pc = "Failed"
    /\ calls[2].error = QuotaExceeded

(***************************************************************************)
(* The research search of the App component (performGlobalSearch).  Each   *)
(* run of the handler is a search s: it awaits the research report, then   *)
(* the illustration; what the two service calls return or throw is what    *)
(* the operations of the service make of a backend answer.  Searches may   *)
(* overlap: nothing in the handler waits for an earlier one.               *)
(***************************************************************************)

Queries == {<<>>, <<" ">>, <<"o", "c", "e", "a", "n">>}

UiErrors ==
    ConcErrors
    \cup { MkError("backend", "undefined", "absent", <<>>),
           MkError("backend", "string", "absent", <<"4", "2", "9">>),
           MkError("backend", "object", "number", <<"4", "2", "9">>),
           MkError("backend", "Error", "string", API_QUOTA_EXCEEDED) }

\* how `await getEnvironmentalSolution(...)` can end, with the engine's
\* format of SyntaxError messages under which it ends so
ReportOutcomesBy ==
    UNION {
        {[fmt |-> fmt, out |-> SettleOutcome(getEnvironmentalSolution(r, fmt))] :
            r \in ConcResponses("getEnvironmentalSolution")}
        \cup {[fmt |-> fmt, out |-> SettleOutcome(Completion("rejected", NoResult, e, 0, 0, <<>>))] :
                 e \in UiErrors}
        : fmt \in ParseErrorFormats}

ReportOutcomes == {o.out : o \in {x \in ReportOutcomesBy : x.fmt = format}}

\* how `await generateVisualIllustration(...)` can end
IllustrationOutcomes ==
    {SettleOutcome(generateVisualIllustration(r)) :
        r \in ConcResponses("generateVisualIllustration")}
    \cup {SettleOutcome(Completion("rejected", NoResult, e, 0, 0, <<>>)) : e \in UiErrors}

\* error.message === "API_QUOTA_EXCEEDED"
MessageIsQuota(e) ==
    e.kind \notin {"string"} /\ e.msgType = "string" /\ e.message = API_QUOTA_EXCEEDED

\* lines 161-164: reading .message of null or undefined throws inside the
\* catch block, before either setter is reached
UiCatch(u, e) ==
    IF e.kind \in {"null", "undefined"} THEN u
    ELSE IF MessageIsQuota(e) THEN [u EXCEPT !.quotaError = TRUE]
    ELSE [u EXCEPT !.researchError = TRUE]

\* lines 165-168
UiFinally(u) == [u EXCEPT !.loading = FALSE, !.loadingStep = ""]

\* SearchFailed with the lines of the finally block placed after the catch
\* block instead: skipped when the catch block itself throws
SearchFailed_NoFinally(u, s, e) ==
    IF e.kind \in {"null", "undefined"}
    THEN [u EXCEPT !.searches[s] = [stage |-> "Failed", caught |-> e]]
    ELSE UiFinally([UiCatch(u, e) EXCEPT !.searches[s] = [stage |-> "Failed", caught |-> e]])

\* search s leaves the try block with e thrown
SearchFailed(u, s, e) ==
    UiFinally([UiCatch(u, e) EXCEPT !.searches[s] = [stage |-> "Failed", caught |-> e]])

UiFrame == UNCHANGED <<vars, repair, calls>>

UiInit ==
    /\ ui = UiInitial
    /\ format \in ParseErrorFormats
    /\ op = "none"
    /\ pc = "Idle"
    /\ backend = BackendState("idle", NoResponse, NoError)
    /\ inner = NotSettled
    /\ result = NoResult
    /\ error = NoError
    /\ backendCalls = 0
    /\ logs = 0
    /\ repair = NoRepair
    /\ calls = NoCalls

\* lines 62-72
stopLiveTranscription(u) ==
    [u EXCEPT !.openSessions = u.openSessions \ {u.liveSessionRef},
              !.liveSessionRef = 0,
              !.openContexts = u.openContexts \ {u.audioContextRef},
              !.audioContextRef = 0,
              !.recording = FALSE]

\* lines 141-155 run as search s: up to the first await
SearchStart(u, s, query) ==
    IF Trim(query) = <<>> THEN u
    ELSE [(IF u.recording THEN stopLiveTranscription(u) ELSE u)
            EXCEPT !.view = "Research", !.loading = TRUE,
                   !.researchError = FALSE, !.quotaError = FALSE,
                   !.solution = NoSolution, !.illustrationUrl = NoIllustration,
                   !.loadingStep = "Consulting",
                   !.searches[s] = [stage |-> "Consulting", caught |-> NoError],
                   !.latest = s]

\* the header's Dashboard button, shown in every view
showDashboard ==
    /\ ui' = [ui EXCEPT !.view = "Dashboard", !.solution = NoSolution]
    /\ UiFrame

\* the search form of App, rendered in the Dashboard view, submits a query
performGlobalSearch(s) ==
    /\ ui.view = "Dashboard"
    /\ ui.searches[s].stage \in {"Idle", "Done", "Failed"}
    /\ \E query \in Queries : ui' = SearchStart(ui, s, query)
    /\ UiFrame

\* the planner is rendered with onSearch={performGlobalSearch}
OnSearchProvided == TRUE

\* typing in the goal field of the planner
setGoal ==
    /\ \E goal \in Queries : ui' = [ui EXCEPT !.planner.goal = goal]
    /\ UiFrame

\* submitting the planner's form, rendered in the Dashboard view: with
\* onSearch provided the goal goes to it and the handler returns; the
\* request for a plan comes after that return
handleGenerate(s) ==
    /\ ui.view = "Dashboard"
    /\ ui.searches[s].stage \in {"Idle", "Done", "Failed"}
    /\ ui' = IF Trim(ui.planner.goal) = <<>> THEN ui
             ELSE IF OnSearchProvided THEN SearchStart(ui, s, ui.planner.goal)
             ELSE [ui EXCEPT !.planner.loading = TRUE,
                             !.planner.requests = ui.planner.requests + 1]
    /\ UiFrame

\* lines 155-159, or 161-168 when the report call throws
ReportSettles(s) ==
    /\ ui.searches[s].stage = "Consulting"
    /\ \E out \in ReportOutcomes :
          ui' = IF out.pc = "Done"
                THEN [ui EXCEPT !.solution = [set |-> TRUE, by |-> s, value |-> out.result],
                                !.loadingStep = "Synthesizing",
                                !.searches[s].stage = "Synthesizing"]
                ELSE SearchFailed(ui, s, out.error)
    /\ UiFrame

\* lines 159-160 and 165-168, or 161-168 when the illustration call throws
IllustrationSettles(s) ==
    /\ ui.searches[s].stage = "Synthesizing"
    /\ \E out \in IllustrationOutcomes :
          ui' = IF out.pc = "Done"
                THEN UiFinally([ui EXCEPT
                        !.illustrationUrl = [set |-> TRUE, by |-> s, value |-> out.result.str],
                        !.searches[s].stage = "Done"])
                ELSE SearchFailed(ui, s, out.error)
    /\ UiFrame

UiNext ==
    \/ setGoal
    \/ showDashboard
    \/ \E s \in SearchIds :
          \/ performGlobalSearch(s)
          \/ handleGenerate(s)
          \/ ReportSettles(s)
          \/ IllustrationSettles(s)

UiSpec == UiInit /\ [][UiNext]_<<vars, repair, calls, ui>>

\* one way the awaited request of a search in flight can settle: rejected
\* with a server error.  It is a step of ReportSettles or of
\* IllustrationSettles, possible exactly when a step of these is.
RequestFails(s) ==
    /\ ui.searches[s].stage \in {"Consulting", "Synthesizing"}
    /\ ui' = SearchFailed(ui, s, MkError("backend", "Error", "string", Msg500InternalError))
    /\ UiFrame

\* the awaited request of a search does not stay pending forever.  A search
\* leaves its await by a step of ReportSettles or IllustrationSettles only,
\* so the condition on RequestFails excludes the behaviours in which a
\* search waits forever, and no others.
UiFairSpec ==
    /\ UiSpec
    /\ \A s \in SearchIds : WF_<<vars, repair, calls, ui>>(RequestFails(s))

\* the step in which search s handles a failure
SearchFails(s) == ui.searches[s].stage # "Failed" /\ ui'.searches[s].stage = "Failed"

\* C20: the step in which a search handles a failure sets quotaError, and
\* leaves researchError as it was, when the message of the failure is
\* exactly "API_QUOTA_EXCEEDED"; for every other failure it sets
\* researchError and leaves quotaError as it was.
C20_OneOfTwoBranches ==
    [][\A s \in SearchIds :
          SearchFails(s)
            => IF MessageIsQuota(ui'.searches[s].caught)
               THEN ui'.quotaError /\ ui'.researchError = ui.researchError
               ELSE ui'.researchError /\ ui'.quotaError = ui.quotaError]_ui

\* C21: submitting a goal that is not blank in the planner makes one call of
\* generateSustainabilityPlan (whose returned plan the planner then shows).
C21_SubmitRequestsPlan ==
    [][\A s \in SearchIds :
          (handleGenerate(s) /\ Trim(ui.planner.goal) # <<>>)
            => ui'.planner.requests = ui.planner.requests + 1]_ui

\* the wrapped request failed and the classifier reached its last branch:
\* the text it searched was a string holding neither marker
OnNonQuotaBranch ==
    /\ inner.status = "rejected"
    /\ ErrorMsg(inner.error).str
    /\ ~HasQuotaMarker(ErrorMsg(inner.error).v)

ImageOps == {"generateVisualIllustration", "generateProImage"}

\* the parts of the response that carry inline data, by position
InlineParts == {i \in 1..Len(backend.resp.content.parts) : backend.resp.content.parts[i].inline}

FirstInlinePart ==
    backend.resp.content.parts[CHOOSE i \in InlineParts : \A j \in InlineParts : i <= j]

\* C23: an image call whose backend request succeeded ends in Done, with
\* "data:image/png;base64," followed by the data of the first part carrying
\* inline data, or with the empty string when no part carries inline data;
\* an image call whose backend request failed ends in Failed with what the
\* classifier makes of the error.
C23_DataUriOrEmpty ==
    (op \in ImageOps /\ Terminal) =>
        /\ backend.status = "resolved" =>
              /\ pc = "Done"
              /\ result.str = IF InlineParts = {} THEN <<>>
                              ELSE DataUriPrefix \o FirstInlinePart.data
        /\ backend.status = "rejected" =>
              /\ pc = "Failed"
              /\ error = SafeCatch(backend.err).thrown

\* the response has no text, or the empty string
EmptyText == ~backend.resp.text.has \/ backend.resp.text.s = <<>>

\* C24: in a structured operation whose backend request succeeded with an
\* empty or absent text (and grounding chunks that are objects), the one
\* strict parse succeeds and tryRepairJson is not invoked; the call ends in
\* Done with an object without members, to which the research report adds
\* `sources` and the plan and the planetary status add nothing.
C24_EmptyTextIsEmptyObject ==
    (op \in StructuredOps /\ backend.status = "resolved" /\ EmptyText /\ ChunksAreObjects)
        => /\ inner.status = "fulfilled"
           /\ inner.parses = 1
           /\ inner.repairs = 0
           /\ Terminal =>
                 /\ pc = "Done"
                 /\ result.kind = "json"
                 /\ result.data.t = "object"
                 /\ result.data.keys = <<>>
                 /\ result.data.items = <<>>
                 /\ result.attached <=> op = "getEnvironmentalSolution"
                 /\ Len(result.sources) = IF op = "getEnvironmentalSolution"
                                          THEN Len(ChunksWithUriAndTitle) ELSE 0

\* a research report answered with the empty string and one complete chunk
C24_Witness ==
    /\ op = "getEnvironmentalSolution"
    /\ pc = "Done"
    /\ backend.resp.text = [has |-> TRUE, s |-> <<>>]
    /\ ResponseChunks = << [kind |-> "web", uri |-> "u1", title |-> "t1"] >>
    /\ result.data.keys = <<>>
    /\ result.sources = << [title |-> "t1", uri |-> "u1"] >>

\* the trimmed text has more "{" than "}"
MoreOpenBraces(t) == CountOf(Trim(t), "{") > CountOf(Trim(t), "}")

\* C25: for an argument whose trimmed text has more "{" than "}", the text
\* tryRepairJson returns ends with "}", and tryRepairJson applied to the
\* returned text returns it unchanged.
C25_RepairIdempotent ==
    /\ []((repair.returned /\ MoreOpenBraces(repair.jsonStr)) => EndsWith(repair.cleaned, "}"))
    /\ [][(repair.returned /\ MoreOpenBraces(repair.jsonStr)
                /\ repair'.jsonStr = repair.cleaned)
            => repair'.cleaned = repair.cleaned]_repair

\* the text returned for {"a": "hello{{ has been passed in again and has come
\* back as it was
C25_Witness ==
    /\ repair.returned
    /\ repair.jsonStr = <<"{", "\"", "a", "\"", ":", " ", "\"", "h", "e", "l", "l", "o",
                          "{", "{", "\"", "}">>
    /\ repair.cleaned = repair.jsonStr

\* two searches have been started and neither is in flight any more
BothSettled == \A s \in SearchIds : ui.searches[s].stage \in {"Done", "Failed"}

\* C26: once two searches have both settled, a solution and an illustration
\* on display in the Research view are those of the search started last,
\* and both are on display when that search succeeded.
C26_LatestSearchDisplayed ==
    (BothSettled /\ ui.view = "Research") =>
        /\ ui.solution.set => ui.solution.by = ui.latest
        /\ ui.illustrationUrl.set => ui.illustrationUrl.by = ui.latest
        /\ ui.searches[ui.latest].stage = "Done"
              => (ui.solution.set /\ ui.illustrationUrl.set)

\* search s has been started and has not reached the end of its handler
InFlight(s) == ui.searches[s].stage \in {"Consulting", "Synthesizing"}

\* C27: every search in flight eventually is not; the step in which a search
\* ends, with success or with any failure of either request, leaves loading
\* false and loadingStep empty; and loading is false whenever no search is
\* in flight.
C27_LoadingCleared ==
    /\ \A s \in SearchIds : InFlight(s) ~> ~InFlight(s)
    /\ [][\A s \in SearchIds :
            (InFlight(s) /\ ui'.searches[s].stage \in {"Done", "Failed"})
                => (~ui'.loading /\ ui'.loadingStep = "")]_ui
    /\ []((\A s \in SearchIds : ~InFlight(s)) => ~ui.loading)

\* a search has ended on a rejection with undefined, for which the catch
\* block throws; nothing is in flight and loading is false
C27_Witness ==
    /\ ui.searches[1].stage = "Failed"
    /\ ui.searches[1].caught.kind = "undefined"
    /\ ~InFlight(2)
    /\ ~ui.loading
    /\ ui.loadingStep = ""

(***************************************************************************)
(* The live transcription of the App component.  A run i of                *)
(* startLiveTranscription awaits the microphone, creates its audio         *)
(* context, awaits the connection of its live session, and then sets       *)
(* recording; the callbacks of a session can fire from the moment its      *)
(* connection is requested.  Searches are started but not followed here.   *)
(***************************************************************************)

\* the handler of a run has ended and what it created is closed
RunFree(i) ==
    /\ ui.starts[i] \in {"Idle", "Ended"}
    /\ i \notin ui.openSessions
    /\ i \notin ui.openContexts

\* lines 136-139; the start runs up to `await getUserMedia`
handleMicToggle(i) ==
    /\ IF ui.recording
       THEN ui' = stopLiveTranscription(ui)
       ELSE /\ RunFree(i)
            /\ ui' = [ui EXCEPT !.starts[i] = "GettingMedia"]
    /\ UiFrame

\* getUserMedia resolves: lines 78-128, up to `await sessionPromise`
MediaGranted(i) ==
    /\ ui.starts[i] = "GettingMedia"
    /\ ui' = [ui EXCEPT !.openContexts = ui.openContexts \cup {i},
                        !.audioContextRef = i,
                        !.starts[i] = "Connecting"]
    /\ UiFrame

\* getUserMedia rejects: the catch block of lines 131-133
MediaDenied(i) ==
    /\ ui.starts[i] = "GettingMedia"
    /\ ui' = [ui EXCEPT !.starts[i] = "Ended"]
    /\ UiFrame

\* the connection is established: lines 129-130
SessionOpens(i) ==
    /\ ui.starts[i] = "Connecting"
    /\ ui' = [ui EXCEPT !.openSessions = ui.openSessions \cup {i},
                        !.liveSessionRef = i,
                        !.recording = TRUE,
                        !.starts[i] = "Ended"]
    /\ UiFrame

\* the connection fails: `await sessionPromise` throws into the catch block
ConnectFails(i) ==
    /\ ui.starts[i] = "Connecting"
    /\ ui' = [ui EXCEPT !.starts[i] = "Ended"]
    /\ UiFrame

\* lines 118-121: the error callback of session i
onerror(i) ==
    /\ ui.starts[i] = "Connecting" \/ i \in ui.openSessions
    /\ ui' = stopLiveTranscription(ui)
    /\ UiFrame

\* lines 122-124: session i is closed from the far end
onclose(i) ==
    /\ i \in ui.openSessions
    /\ ui' = [ui EXCEPT !.openSessions = ui.openSessions \ {i}, !.recording = FALSE]
    /\ UiFrame

LiveNext ==
    \/ showDashboard
    \/ \E s \in SearchIds : performGlobalSearch(s)
    \/ \E i \in StartIds :
          \/ handleMicToggle(i)
          \/ MediaGranted(i)
          \/ MediaDenied(i)
          \/ SessionOpens(i)
          \/ ConnectFails(i)
          \/ onerror(i)
          \/ onclose(i)

LiveSpec == UiInit /\ [][LiveNext]_<<vars, repair, calls, ui>>

\* C28: at most one live session and at most one audio context are open at
\* any time; and a step that is stopLiveTranscription leaves no session and
\* no audio context open, both refs null and recording false.
C28_OneSessionOneContext ==
    /\ [](Cardinality(ui.openSessions) <= 1 /\ Cardinality(ui.openContexts) <= 1)
    /\ [][ui' = stopLiveTranscription(ui)
            => /\ ui'.openSessions = {}
               /\ ui'.openContexts = {}
               /\ ui'.liveSessionRef = 0
               /\ ui'.audioContextRef = 0
               /\ ~ui'.recording]_ui

(***************************************************************************)
(* The habit tracker, rendered in the Dashboard view next to the search    *)
(* form and the planner.  Its list is saved after every change and read    *)
(* back when the component is mounted again, so it outlives the views.     *)
(***************************************************************************)

\* the ids toggleHabit is called with: those of the list and one of none
ToggleIds == {"1", "2", "3", "4"}

\* the updater with the streak raised on either change
ToggleUpdater_AlwaysRaises(prev, id) ==
    [i \in 1..Len(prev) |->
        IF prev[i].id = id
        THEN [prev[i] EXCEPT !.completed = ~prev[i].completed, !.streak = prev[i].streak + 1]
        ELSE prev[i]]

\* the updater without the test of the id
ToggleUpdater_EveryHabit(prev, id) ==
    [i \in 1..Len(prev) |->
        [prev[i] EXCEPT !.completed = ~prev[i].completed,
                        !.streak = IF ~prev[i].completed THEN prev[i].streak + 1
                                   ELSE Max(0, prev[i].streak - 1)]]

\* lines 20-26: the function given to setHabits
ToggleUpdater(prev, id) ==
    [i \in 1..Len(prev) |->
        IF prev[i].id = id
        THEN [prev[i] EXCEPT !.completed = ~prev[i].completed,
                             !.streak = IF ~prev[i].completed THEN prev[i].streak + 1
                                        ELSE Max(0, prev[i].streak - 1)]
        ELSE prev[i]]

toggleHabit(id) ==
    /\ ui.view = "Dashboard"
    /\ ui' = [ui EXCEPT !.habits = ToggleUpdater(ui.habits, id)]
    /\ UiFrame

HabitNext ==
    \/ \E id \in ToggleIds : toggleHabit(id)
    \/ setGoal
    \/ showDashboard
    \/ \E s \in SearchIds : performGlobalSearch(s) \/ handleGenerate(s)

HabitSpec == UiInit /\ [][HabitNext]_<<vars, repair, calls, ui>>

\* C29: from the default list, every habit's streak is at least 0 and is
\* its default streak plus 1 when the habit is completed, plus 0 when it is
\* not; a change of a habit flips its completed flag, so that two toggles
\* of the same habit leave it as it was.
C29_StreakFollowsCompleted ==
    /\ [](\A i \in 1..Len(ui.habits) :
            /\ ui.habits[i].streak >= 0
            /\ ui.habits[i].streak
                 = DefaultHabits[i].streak + (IF ui.habits[i].completed THEN 1 ELSE 0))
    /\ [][\A id \in ToggleIds :
            toggleHabit(id) => ToggleUpdater(ui'.habits, id) = ui.habits]_ui

\* the habit with default streak 0 and the one with default streak 12 are
\* completed
C29_Witness ==
    /\ ui.habits[3].completed
    /\ ui.habits[3].streak = 1
    /\ ui.habits[2].completed
    /\ ui.habits[2].streak = 13
    /\ ~ui.habits[1].completed

\* C30: toggleHabit(id) leaves the number, the order, the ids and the names
\* of the habits as they are, leaves every habit with another id as it is,
\* changes nothing outside the list, and changes nothing at all when no
\* habit has the id.
C30_OnlyMatchingHabitChanges ==
    [][\A id \in ToggleIds :
          toggleHabit(id) =>
             /\ Len(ui'.habits) = Len(ui.habits)
             /\ \A i \in 1..Len(ui.habits) :
                   /\ ui'.habits[i].id = ui.habits[i].id
                   /\ ui'.habits[i].name = ui.habits[i].name
                   /\ ui.habits[i].id # id => ui'.habits[i] = ui.habits[i]
                   /\ ui.habits[i].id = id => ui'.habits[i].completed # ui.habits[i].completed
             /\ ui' = [ui EXCEPT !.habits = ui'.habits]
             /\ (\A i \in 1..Len(ui.habits) : ui.habits[i].id # id) => ui' = ui]_ui

\* habit "2" has been toggled and the two others are as in the default list
C30_Witness ==
    /\ ui.habits[2].completed
    /\ ui.habits[1] = DefaultHabits[1]
    /\ ui.habits[3] = DefaultHabits[3]
    /\ ui.planner.goal = <<"o", "c", "e", "a", "n">>

====
